---- MODULE Spec2Model ----
(***************************************************************************)
(* Model of orbiter_props_export.py: the header export operator            *)
(* (OrbiterExportHeaderFile.execute), the bmesh_object context manager,    *)
(* and the rocket-group list operators of the tool panel.                  *)
(*                                                                         *)
(* Conventions                                                             *)
(*  - Lengths are integers in thousandths of a scene unit, so 1.0 is 1000. *)
(*    Rotation entries of a matrix are plain integers (-1, 0, 1).          *)
(*  - Names that the code transforms (object names, the header path) are   *)
(*    sequences of one-character strings, so that str.upper(), basename    *)
(*    and splitext are computed character by character.                    *)
(*  - A formatted row of text is modelled by the record of the values the  *)
(*    format string prints; the field obj of a rocket row is provenance    *)
(*    (the object the loop iteration was run on), not printed text.        *)
(***************************************************************************)
EXTENDS Integers, Sequences, FiniteSets, TLC

(* ----------------------------- bounds ---------------------------------- *)
\* longest rocket_groups list the panel builds / the export is run on
MaxGroups == 2
\* most vertices of the collision-cage mesh
MaxVerts == 2

(* --------------------------- small helpers ------------------------------ *)
Range(s) == {s[i] : i \in 1..Len(s)}

SeqsUpTo(S, n) == UNION {[1..k -> S] : k \in 0..n}

\* every sequence that lists the elements of the finite set S once each
Orderings(S) ==
  {s \in [1..Cardinality(S) -> S] : \A i, j \in 1..Cardinality(S) : s[i] = s[j] => i = j}

(* ------------------------------ str.upper ------------------------------- *)
LowerCase ==
  <<"a","b","c","d","e","f","g","h","i","j","k","l","m",
    "n","o","p","q","r","s","t","u","v","w","x","y","z">>
UpperCase ==
  <<"A","B","C","D","E","F","G","H","I","J","K","L","M",
    "N","O","P","Q","R","S","T","U","V","W","X","Y","Z">>

UpperChar(c) ==
  IF \E i \in 1..26 : LowerCase[i] = c
    THEN UpperCase[CHOOSE i \in 1..26 : LowerCase[i] = c]
    ELSE c

\* str.upper(): every cased character is replaced by its upper-case form
Upper(s) == [i \in 1..Len(s) |-> UpperChar(s[i])]

(* ----------------------- os.path.basename / splitext -------------------- *)
LastIndexOf(s, c) ==
  IF \E i \in 1..Len(s) : s[i] = c
    THEN CHOOSE i \in 1..Len(s) : s[i] = c /\ \A j \in (i+1)..Len(s) : s[j] # c
    ELSE 0

\* os.path.basename: what follows the last "/"
Basename(p) == SubSeq(p, LastIndexOf(p, "/") + 1, Len(p))

\* os.path.splitext(...)[0]: cut at the last ".", unless only dots precede it
SplitextRoot(b) ==
  LET d == LastIndexOf(b, ".")
  IN IF d > 0 /\ \E j \in 1..(d-1) : b[j] # "."
       THEN SubSeq(b, 1, d - 1)
       ELSE b

\* line 71
Defname(header_file) == Upper(SplitextRoot(Basename(header_file)))

(* ------------------------------ mathutils ------------------------------- *)
VecSub(a, b) == <<a[1] - b[1], a[2] - b[2], a[3] - b[3]>>
\* Vector.negate()
VecNegate(a) == <<-a[1], -a[2], -a[3]>>

Identity4 == <<<<1,0,0,0>>, <<0,1,0,0>>, <<0,0,1,0>>, <<0,0,0,1>>>>

\* Matrix.Translation(v)
Translation(v) ==
  <<<<1,0,0,v[1]>>, <<0,1,0,v[2]>>, <<0,0,1,v[3]>>, <<0,0,0,1>>>>

\* Matrix * Matrix (4x4)
MatMul(A, B) ==
  [i \in 1..4 |-> [j \in 1..4 |->
     A[i][1]*B[1][j] + A[i][2]*B[2][j] + A[i][3]*B[3][j] + A[i][4]*B[4][j]]]

\* the translation column of a 4x4 matrix: (mat[0][3], mat[1][3], mat[2][3])
TranslationOf(M) == <<M[1][4], M[2][4], M[3][4]>>

(* --------------------------- convert_to_orbiter ------------------------- *)
\* lines 43-45: return -pos[0], pos[2], -pos[1]
convert_to_orbiter(pos) == <<-pos[1], pos[3], -pos[2]>>

\* round(x, 2) on a value given in thousandths: the nearest hundredth, a tie
\* going to the even hundredth.  Python rounds the binary value correctly, so
\* this is exact for the coordinates used here (multiples of 1/8, which a
\* float holds exactly).
Round2(n) ==
  LET q == n \div 10
      r == n % 10
  IN IF r < 5 THEN 10 * q
     ELSE IF r > 5 THEN 10 * (q + 1)
     ELSE IF q % 2 = 0 THEN 10 * q ELSE 10 * (q + 1)

(* ------------------------------- the scene ------------------------------ *)
\* object names (bpy.data.objects keys); Blender keeps them unique and
\* case-sensitive
nCage == <<"C","a","g","e">>
nHull == <<"h","u","l","l">>
nRcsLower == <<"r","c","s">>
nRcsUpper == <<"R","C","S">>
nMain == <<"m","a","i","n">>
NoName == <<>>

ObjectNames == {nCage, nHull, nRcsLower, nRcsUpper, nMain}

\* a quarter turn about X (local +Z becomes world -Y) and a half turn about X
RotX90 == <<<<1,0,0,0>>, <<0,0,-1,0>>, <<0,1,0,0>>, <<0,0,0,1>>>>
RotX180 == <<<<1,0,0,0>>, <<0,-1,0,0>>, <<0,0,-1,0>>, <<0,0,0,1>>>>

NoMeshData == [is_mesh |-> FALSE, verts |-> <<>>]
MeshData(verts) == [is_mesh |-> TRUE, verts |-> verts]

\* vertex coordinates (v.co) a cage mesh is built from
CageVertPool == {<<125, 2000, -3000>>, <<-1000, 375, 0>>}
CageMeshes == SeqsUpTo(CageVertPool, MaxVerts)

\* bpy.data.objects: a cage mesh, a hull mesh, and three empties; main is a
\* child of hull, so its location property is relative to hull
SceneObjects(cage_verts) ==
  [n \in ObjectNames |->
     IF n = nCage THEN
       [type |-> "MESH", data |-> MeshData(cage_verts),
        location |-> <<0, 0, 0>>, rot |-> Identity4, parent |-> NoName]
     ELSE IF n = nHull THEN
       [type |-> "MESH", data |-> MeshData(<<>>),
        location |-> <<0, 3000, 0>>, rot |-> Identity4, parent |-> NoName]
     ELSE IF n = nRcsLower THEN
       [type |-> "EMPTY", data |-> NoMeshData,
        location |-> <<1000, 0, 0>>, rot |-> Identity4, parent |-> NoName]
     ELSE IF n = nRcsUpper THEN
       [type |-> "EMPTY", data |-> NoMeshData,
        location |-> <<-1000, 0, 0>>, rot |-> RotX90, parent |-> NoName]
     ELSE
       [type |-> "EMPTY", data |-> NoMeshData,
        location |-> <<0, 0, -2000>>, rot |-> RotX180, parent |-> nHull]]

\* bpy.data.groups: each group lists its member objects in its own order
GroupNames == {"G1", "G2"}
SceneGroups ==
  [g \in GroupNames |->
     IF g = "G1" THEN <<nRcsLower, nMain, nHull>> ELSE <<nMain, nRcsUpper>>]

\* Object.matrix_world: the parent's world matrix times the object's own
\* location and rotation
RECURSIVE matrix_world(_, _)
matrix_world(objs, n) ==
  LET basis == MatMul(Translation(objs[n].location), objs[n].rot)
  IN IF objs[n].parent = NoName
       THEN basis
       ELSE MatMul(matrix_world(objs, objs[n].parent), basis)

(* ------------------------------- settings ------------------------------- *)
\* values the panel's text fields are given
CcageChoices == {NoName, nCage, nMain}
pShip == <<"o","u","t","/","s","h","i","p",".","h">>
HeaderFileChoices == {NoName, pShip}
ItemNameChoices == {"", "MAIN", "RCS"}
ItemGroupChoices == {""} \cup GroupNames

\* OrbiterRocketGroup as created by rocket_groups.add(): empty strings
NewRocketGroup == [name |-> "", group |-> ""]

\* group entries the export is run on
ExportItems ==
  {NewRocketGroup, [name |-> "MAIN", group |-> "G1"], [name |-> "RCS", group |-> "G2"]}

(* -------------------------------- state --------------------------------- *)
VARIABLES
  objects,                     \* bpy.data.objects
  groups,                      \* bpy.data.groups
  ccage,                       \* orbiter.ccage
  ccage_suffix,                \* orbiter.ccage_suffix
  header_file,                 \* orbiter.header_file
  rocket_groups,               \* orbiter.rocket_groups
  rocket_groups_active_index,  \* orbiter.rocket_groups_active_index
  pc,                          \* position of execute
  bm,                          \* bmesh_object._bm: "None", "new" or "freed"
  bm_verts,                    \* bm.verts
  vert_list,                   \* execute's vert_list
  all_rockets,                 \* execute's set, listed in its iteration order
  rockets,                     \* execute's rockets
  rockets_pos,                 \* execute's rockets_pos
  rockets_dir,                 \* execute's rockets_dir
  rocket_groups_str,           \* execute's local rocket_groups (the blocks)
  file                         \* what is stored at header_file

scene == <<objects, groups>>
settings == <<ccage, ccage_suffix, header_file, rocket_groups, rocket_groups_active_index>>
locals == <<bm, bm_verts, vert_list, all_rockets, rockets, rockets_pos, rockets_dir,
            rocket_groups_str>>
vars == <<scene, settings, pc, locals, file>>

NoFile == [kind |-> "none"]
\* a header left by an earlier session
StaleFile == [kind |-> "stale"]

LocalsCleared ==
  /\ bm = "None"
  /\ bm_verts = <<>>
  /\ vert_list = <<>>
  /\ all_rockets = <<>>
  /\ rockets = <<>>
  /\ rockets_pos = <<>>
  /\ rockets_dir = <<>>
  /\ rocket_groups_str = <<>>

\* the add-on just registered (lines 206-224, 273): every property at its
\* default, nothing exported yet
InitPanel ==
  /\ objects = SceneObjects(<<>>)
  /\ groups = SceneGroups
  /\ ccage = NoName
  /\ ccage_suffix = ""
  /\ header_file = NoName
  /\ rocket_groups = <<>>
  /\ rocket_groups_active_index = 0
  /\ pc = "idle"
  /\ LocalsCleared
  /\ file = NoFile

(* ------------------------- rocket group operators ----------------------- *)
\* list.index(x): 0-based position of the first element equal to x
ListIndex(s, x) == (CHOOSE i \in 1..Len(s) : s[i] = x /\ \A j \in 1..(i-1) : s[j] # x) - 1

\* rocket_groups.values() by identity: an entry is identified by its slot, and
\* add() returns the entry in the new last slot
AddedActiveIndex(new_groups) ==
  ListIndex([i \in 1..Len(new_groups) |-> i], Len(new_groups))

\* lines 156-162
OrbiterRocketGroupAdd ==
  /\ pc = "idle"
  /\ Len(rocket_groups) < MaxGroups
  /\ rocket_groups' = Append(rocket_groups, NewRocketGroup)
  /\ rocket_groups_active_index' = AddedActiveIndex(rocket_groups')
  /\ UNCHANGED <<scene, ccage, ccage_suffix, header_file, pc, locals, file>>

\* bpy_prop_collection.remove(index): drops the entry at a valid 0-based
\* index, and does nothing for an index outside the collection
CollectionRemove(s, index) ==
  IF index >= 0 /\ index < Len(s)
    THEN [i \in 1..(Len(s) - 1) |-> IF i <= index THEN s[i] ELSE s[i + 1]]
    ELSE s

\* variant: the active index is not moved back
RemovedActiveIndexKept(index) == index

\* line 174
RemovedActiveIndex(index) == IF index - 1 > 0 THEN index - 1 ELSE 0

\* lines 170-176
OrbiterRocketGroupRemove ==
  /\ pc = "idle"
  /\ rocket_groups' = CollectionRemove(rocket_groups, rocket_groups_active_index)
  /\ rocket_groups_active_index' = RemovedActiveIndex(rocket_groups_active_index)
  /\ UNCHANGED <<scene, ccage, ccage_suffix, header_file, pc, locals, file>>

Directions == {"UP", "DOWN"}

\* line 189
MoveTarget(index, direction) == index + (IF direction = "UP" THEN -1 ELSE 1)

\* line 192: the target is a valid index
MoveTargetValid(target, len) == ~(target < 0 \/ target >= len)

\* bpy_prop_collection.move(from, to) for 0-based valid indices: the entry at
\* from is taken out and put back at to
CollectionMove(s, from, to) ==
  LET item == s[from + 1]
      rest == CollectionRemove(s, from)
  IN [i \in 1..Len(s) |->
        IF i < to + 1 THEN rest[i]
        ELSE IF i = to + 1 THEN item
        ELSE rest[i - 1]]

\* lines 186-198
OrbiterRocketGroupMove(direction) ==
  LET index == rocket_groups_active_index
      target == MoveTarget(index, direction)
  IN /\ pc = "idle"
     /\ IF MoveTargetValid(target, Len(rocket_groups))
          THEN /\ rocket_groups' = CollectionMove(rocket_groups, index, target)
               /\ rocket_groups_active_index' = target
          ELSE UNCHANGED <<rocket_groups, rocket_groups_active_index>>
     /\ UNCHANGED <<scene, ccage, ccage_suffix, header_file, pc, locals, file>>

(* --------------------------- panel property edits ----------------------- *)
\* line 253: template_list makes a clicked row the active one
SelectItem(i) ==
  /\ pc = "idle"
  /\ i \in 0..(Len(rocket_groups) - 1)
  /\ rocket_groups_active_index' = i
  /\ UNCHANGED <<scene, ccage, ccage_suffix, header_file, rocket_groups, pc, locals, file>>

\* line 229: the row's name field
SetItemName(i, n) ==
  /\ pc = "idle"
  /\ i \in 1..Len(rocket_groups)
  /\ rocket_groups' = [rocket_groups EXCEPT ![i].name = n]
  /\ UNCHANGED <<scene, ccage, ccage_suffix, header_file, rocket_groups_active_index,
                 pc, locals, file>>

\* line 230: the row's group field
SetItemGroup(i, g) ==
  /\ pc = "idle"
  /\ i \in 1..Len(rocket_groups)
  /\ rocket_groups' = [rocket_groups EXCEPT ![i].group = g]
  /\ UNCHANGED <<scene, ccage, ccage_suffix, header_file, rocket_groups_active_index,
                 pc, locals, file>>

\* line 245: the collision cage field
SetCcage(c) ==
  /\ pc = "idle"
  /\ ccage' = c
  /\ UNCHANGED <<scene, ccage_suffix, header_file, rocket_groups,
                 rocket_groups_active_index, pc, locals, file>>

\* line 265: the header file field
SetHeaderFile(h) ==
  /\ pc = "idle"
  /\ header_file' = h
  /\ UNCHANGED <<scene, ccage, ccage_suffix, rocket_groups,
                 rocket_groups_active_index, pc, locals, file>>

NextPanel ==
  \/ OrbiterRocketGroupAdd
  \/ OrbiterRocketGroupRemove
  \/ \E d \in Directions : OrbiterRocketGroupMove(d)
  \/ \E i \in 0..(MaxGroups - 1) : SelectItem(i)
  \/ \E i \in 1..MaxGroups, n \in ItemNameChoices : SetItemName(i, n)
  \/ \E i \in 1..MaxGroups, g \in ItemGroupChoices : SetItemGroup(i, g)
  \/ \E c \in CcageChoices : SetCcage(c)
  \/ \E h \in HeaderFileChoices : SetHeaderFile(h)

SpecPanel == InitPanel /\ [][NextPanel]_vars

(* ------------------------ OrbiterExportHeaderFile ----------------------- *)
\* line 76: bpy.data.objects[orbiter.ccage] raises KeyError for an unknown name
ObjectResolves(objs, name) == name \in DOMAIN objs

\* variant: an unknown group is taken to be empty (groups.get(name))
ResolveGroupLenient(grps, name) ==
  IF name \in DOMAIN grps
    THEN [found |-> TRUE, objects |-> grps[name]]
    ELSE [found |-> TRUE, objects |-> <<>>]

\* lines 98, 127: bpy.data.groups[group.group].objects; found is FALSE where
\* the lookup raises KeyError
ResolveGroup(grps, name) ==
  IF name \in DOMAIN grps
    THEN [found |-> TRUE, objects |-> grps[name]]
    ELSE [found |-> FALSE, objects |-> <<>>]

\* lines 68-76 and 49-51: look the cage object up and build bmesh_object
ExecuteBegin ==
  /\ pc = "idle"
  /\ IF ObjectResolves(objects, ccage)
       THEN /\ pc' = "enter"
            /\ bm' = "None"
            /\ vert_list' = <<>>
       ELSE /\ pc' = "failed"
            /\ UNCHANGED <<bm, vert_list>>
  /\ UNCHANGED <<scene, settings, bm_verts, all_rockets, rockets, rockets_pos,
                 rockets_dir, rocket_groups_str, file>>

\* line 55: BMesh.from_mesh accepts a Mesh only; it raises TypeError for the
\* data of any other object (None for an empty)
FromMeshAccepts(data) == data.is_mesh

\* lines 53-56: an exception in __enter__ leaves the with statement without
\* running __exit__
BmeshEnter ==
  /\ pc = "enter"
  /\ bm' = "new"
  /\ IF FromMeshAccepts(objects[ccage].data)
       THEN /\ bm_verts' = objects[ccage].data.verts
            /\ pc' = "verts"
       ELSE /\ pc' = "failed"
            /\ UNCHANGED bm_verts
  /\ UNCHANGED <<scene, settings, vert_list, all_rockets, rockets, rockets_pos,
                 rockets_dir, rocket_groups_str, file>>

\* lines 81-88: one formatted cage row
CageRow(co) ==
  LET p == convert_to_orbiter(co)
  IN [x |-> Round2(p[1]), y |-> Round2(p[2]), z |-> Round2(p[3]),
      props |-> "1e6, 1e5, 1.6"]

\* variant: a row equal to one already listed is not appended again
RECURSIVE CageLoopDistinct(_, _)
CageLoopDistinct(acc, verts) ==
  IF verts = <<>>
    THEN acc
    ELSE CageLoopDistinct(
           IF \E k \in 1..Len(acc) : acc[k] = CageRow(Head(verts))
             THEN acc
             ELSE Append(acc, CageRow(Head(verts))),
           Tail(verts))

\* lines 77-89: for v in bm.verts: ... vert_list.append(s)
RECURSIVE CageLoop(_, _)
CageLoop(acc, verts) ==
  IF verts = <<>>
    THEN acc
    ELSE CageLoop(Append(acc, CageRow(Head(verts))), Tail(verts))

CageVerts ==
  /\ pc = "verts"
  /\ vert_list' = CageLoop(vert_list, bm_verts)
  /\ pc' = "exit"
  /\ UNCHANGED <<scene, settings, bm, bm_verts, all_rockets, rockets, rockets_pos,
                 rockets_dir, rocket_groups_str, file>>

\* lines 58-60: write the bmesh back to the mesh and free it
BmeshExit ==
  /\ pc = "exit"
  /\ objects' = [objects EXCEPT ![ccage].data = MeshData(bm_verts)]
  /\ bm' = "freed"
  /\ pc' = "collect"
  /\ UNCHANGED <<groups, settings, bm_verts, vert_list, all_rockets, rockets,
                 rockets_pos, rockets_dir, rocket_groups_str, file>>

\* lines 96-98: the members of every configured group, as a set
AllGroupsResolve(grps, rgs) ==
  \A i \in 1..Len(rgs) : ResolveGroup(grps, rgs[i].group).found

AllMembers(grps, rgs) ==
  UNION {Range(ResolveGroup(grps, rgs[i].group).objects) : i \in 1..Len(rgs)}

\* the order in which a Python set of objects is iterated is fixed by their
\* hashes (memory addresses), so any order of the members can come out
SetIterationOrders(S) == Orderings(S)

CollectRockets ==
  /\ pc = "collect"
  /\ IF AllGroupsResolve(groups, rocket_groups)
       THEN /\ all_rockets' \in SetIterationOrders(AllMembers(groups, rocket_groups))
            /\ pc' = "index"
       ELSE /\ pc' = "failed"
            /\ UNCHANGED all_rockets
  /\ UNCHANGED <<scene, settings, bm, bm_verts, vert_list, rockets, rockets_pos,
                 rockets_dir, rocket_groups_str, file>>

\* variant: the type test is left out
IsEligibleAny(obj) == obj.type \in {"EMPTY", "MESH"}

\* line 104
IsEligible(obj) == obj.type = "EMPTY"

\* variant: indices counted from 1
NextIndexOneBased(pos_rows) == Len(pos_rows) + 1

\* line 114
NextIndex(pos_rows) == Len(pos_rows)

\* lines 107-111
RocketDir(objs, rocket) ==
  LET mat == MatMul(matrix_world(objs, rocket), Translation(<<0, 0, 1000>>))
  IN VecNegate(VecSub(TranslationOf(mat), objs[rocket].location))

\* line 115: the position that is printed
RocketPos(objs, rocket) == convert_to_orbiter(objs[rocket].location)

\* lines 104-122: the body of the rocket loop
RocketStep(acc, objs, rocket) ==
  IF IsEligible(objs[rocket])
    THEN LET index == NextIndex(acc.rockets_pos)
         IN [rockets |-> Append(acc.rockets,
                          [obj |-> rocket, name |-> Upper(rocket), index |-> index]),
             rockets_pos |-> Append(acc.rockets_pos,
                          [obj |-> rocket, v |-> RocketPos(objs, rocket)]),
             rockets_dir |-> Append(acc.rockets_dir,
                          [obj |-> rocket,
                           v |-> convert_to_orbiter(RocketDir(objs, rocket))])]
    ELSE acc

\* lines 100-122: for rocket in all_rockets
RECURSIVE RocketLoop(_, _, _)
RocketLoop(acc, objs, todo) ==
  IF todo = <<>>
    THEN acc
    ELSE RocketLoop(RocketStep(acc, objs, Head(todo)), objs, Tail(todo))

IndexRockets ==
  /\ pc = "index"
  /\ LET r == RocketLoop([rockets |-> <<>>, rockets_pos |-> <<>>, rockets_dir |-> <<>>],
                         objects, all_rockets)
     IN /\ rockets' = r.rockets
        /\ rockets_pos' = r.rockets_pos
        /\ rockets_dir' = r.rockets_dir
  /\ pc' = "groups"
  /\ UNCHANGED <<scene, settings, bm, bm_verts, vert_list, all_rockets,
                 rocket_groups_str, file>>

\* variant: member names upper-cased as on line 105
GroupBlockUpper(grps, group) ==
  LET members == ResolveGroup(grps, group.group).objects
  IN [group |-> group.name, rockets |-> [k \in 1..Len(members) |-> Upper(members[k])]]

\* lines 126-132: one 'const int <group> { ... }' block
GroupBlock(grps, group) ==
  [group |-> group.name, rockets |-> ResolveGroup(grps, group.group).objects]

\* lines 124-132
RECURSIVE GroupLoop(_, _, _)
GroupLoop(acc, grps, todo) ==
  IF todo = <<>>
    THEN acc
    ELSE GroupLoop(Append(acc, GroupBlock(grps, Head(todo))), grps, Tail(todo))

GroupBlocks ==
  /\ pc = "groups"
  /\ IF AllGroupsResolve(groups, rocket_groups)
       THEN /\ rocket_groups_str' = GroupLoop(<<>>, groups, rocket_groups)
            /\ pc' = "render"
       ELSE /\ pc' = "failed"
            /\ UNCHANGED rocket_groups_str
  /\ UNCHANGED <<scene, settings, bm, bm_verts, vert_list, all_rockets, rockets,
                 rockets_pos, rockets_dir, file>>

\* lines 70-72, 91-93, 134-141: template_context
TemplateContext ==
  [kind |-> "header",
   defname |-> Defname(header_file),
   rocket_names |-> rockets,
   ccage_suffix |-> ccage_suffix,
   ccage_vert_count |-> Len(vert_list),
   ccage_verts |-> vert_list,
   rocket_pos |-> rockets_pos,
   rocket_dir |-> rockets_dir,
   rocket_groups |-> rocket_groups_str]

\* line 145: open(path, 'w') raises FileNotFoundError for the empty path
PathOpens(path) == path # NoName

\* lines 145-146
WriteHeader ==
  /\ pc = "render"
  /\ IF PathOpens(header_file)
       THEN /\ file' = TemplateContext
            /\ pc' = "done"
       ELSE /\ pc' = "failed"
            /\ UNCHANGED file
  /\ UNCHANGED <<scene, settings, locals>>

ClearLocals ==
  /\ bm' = "None"
  /\ bm_verts' = <<>>
  /\ vert_list' = <<>>
  /\ all_rockets' = <<>>
  /\ rockets' = <<>>
  /\ rockets_pos' = <<>>
  /\ rockets_dir' = <<>>
  /\ rocket_groups_str' = <<>>

\* line 148: return {'FINISHED'}
ReturnFinished ==
  /\ pc = "done"
  /\ pc' = "idle"
  /\ ClearLocals
  /\ UNCHANGED <<scene, settings, file>>

\* an exception leaves execute and the operator is reported as failed
RaiseToCaller ==
  /\ pc = "failed"
  /\ pc' = "idle"
  /\ ClearLocals
  /\ UNCHANGED <<scene, settings, file>>

SuffixChoices == {"_aft"}

\* a scene and settings the panel can have produced, before an export
InitExport ==
  /\ \E mesh \in CageMeshes : objects = SceneObjects(mesh)
  /\ groups = SceneGroups
  /\ ccage \in CcageChoices
  /\ ccage_suffix \in SuffixChoices
  /\ header_file \in HeaderFileChoices
  /\ rocket_groups \in SeqsUpTo(ExportItems, MaxGroups)
  /\ rocket_groups_active_index = IF rocket_groups = <<>> THEN 0 ELSE Len(rocket_groups) - 1
  /\ pc = "idle"
  /\ LocalsCleared
  /\ file \in {NoFile, StaleFile}

NextExport ==
  \/ ExecuteBegin
  \/ BmeshEnter
  \/ CageVerts
  \/ BmeshExit
  \/ CollectRockets
  \/ IndexRockets
  \/ GroupBlocks
  \/ WriteHeader
  \/ ReturnFinished
  \/ RaiseToCaller

SpecExport == InitExport /\ [][NextExport]_vars

(* ------------------------------ properties ------------------------------ *)
Rendered == file.kind = "header"

\* the members of the configured groups, read from the scene
ConfiguredMembers ==
  UNION {IF rocket_groups[i].group \in DOMAIN groups
           THEN Range(groups[rocket_groups[i].group])
           ELSE {} : i \in 1..Len(rocket_groups)}

EligibleObjects == {o \in ConfiguredMembers : objects[o].type = "EMPTY"}

MissingReference ==
  \/ ccage \notin DOMAIN objects
  \/ \E i \in 1..Len(rocket_groups) : rocket_groups[i].group \notin DOMAIN groups

Count(s, x) == Cardinality({i \in 1..Len(s) : s[i] = x})

\* C1: once the rocket loop has run, exactly the distinct EMPTY members of the
\* configured groups carry an index, each carries one, and the indices are
\* 0 .. N-1 for N such objects.
C1_IndexBijection ==
  pc \in {"groups", "render", "done"} =>
    LET N == Cardinality(EligibleObjects)
    IN /\ Len(rockets) = N
       /\ {rockets[i].index : i \in 1..Len(rockets)} = 0..(N - 1)
       /\ \A i \in 1..Len(rockets) : rockets[i].obj \in EligibleObjects
       /\ \A o \in EligibleObjects :
            Cardinality({i \in 1..Len(rockets) : rockets[i].obj = o}) = 1

\* two overlapping groups with a mesh member: three empties indexed, main once
C1_Witness ==
  /\ pc = "done"
  /\ Len(rocket_groups) = 2
  /\ rocket_groups[1].group = "G1"
  /\ rocket_groups[2].group = "G2"
  /\ Len(rockets) = 3
  /\ nHull \in ConfiguredMembers
  /\ Count([i \in 1..Len(rockets) |-> rockets[i].obj], nMain) = 1

\* C2: an export that overwrites the header of an earlier export of the same
\* scene and settings writes the same rocket-to-index assignment.
C2_SameMappingOnRerun ==
  [][(pc = "render" /\ pc' = "done" /\ Rendered)
       => file'.rocket_names = file.rocket_names]_vars

\* C3: while the cage name or a group's collection name does not resolve, no
\* step changes the stored file and no step reaches the write or FINISHED.
C3_NoOutputOnMissing ==
  [][MissingReference => (file' = file /\ pc' \notin {"render", "done"})]_vars

\* the cage was read and freed, then a group did not resolve; the old header
\* is still there
C3_Witness ==
  /\ pc = "failed"
  /\ bm = "freed"
  /\ ccage \in DOMAIN objects
  /\ MissingReference
  /\ file = StaleFile

\* C4: when execute has ended, by return or by exception, no bmesh that was
\* created is left unfreed.
C4_HandleReleased == pc \in {"done", "failed"} => bm # "new"

\* C5: the header has one block per configured group, in configured order,
\* named after the entry and listing the raw names of all members of its
\* collection in the collection's order.
C5_GroupBlocks ==
  Rendered =>
    /\ Len(file.rocket_groups) = Len(rocket_groups)
    /\ \A i \in 1..Len(rocket_groups) :
         /\ rocket_groups[i].group \in DOMAIN groups
         /\ file.rocket_groups[i].group = rocket_groups[i].name
         /\ file.rocket_groups[i].rockets = groups[rocket_groups[i].group]

\* hull is listed but has no index; main is listed by both blocks and has one
C5_Witness ==
  /\ Rendered
  /\ Len(file.rocket_groups) = 2
  /\ nHull \in Range(file.rocket_groups[1].rockets)
  /\ nMain \in Range(file.rocket_groups[1].rockets)
  /\ nMain \in Range(file.rocket_groups[2].rockets)
  /\ \A i \in 1..Len(file.rocket_names) : file.rocket_names[i].obj # nHull
  /\ Count([i \in 1..Len(file.rocket_names) |-> file.rocket_names[i].obj], nMain) = 1

\* C6: both arrays have as many rows as there are #define lines, and the row
\* at the index a #define line prints was computed from that line's object.
C6_ParallelArrays ==
  Rendered =>
    /\ Len(file.rocket_pos) = Len(file.rocket_names)
    /\ Len(file.rocket_dir) = Len(file.rocket_names)
    /\ \A i \in 1..Len(file.rocket_names) :
         LET k == file.rocket_names[i].index + 1
             o == file.rocket_names[i].obj
         IN /\ k \in 1..Len(file.rocket_pos)
            /\ k \in 1..Len(file.rocket_dir)
            /\ file.rocket_pos[k] = [obj |-> o, v |-> RocketPos(objects, o)]
            /\ file.rocket_dir[k].obj = o

C6_Witness ==
  /\ Rendered
  /\ Len(file.rocket_names) = 3
  /\ file.rocket_names[3].obj = nRcsLower
  /\ file.rocket_pos[3].obj = nRcsLower

\* C7: every exported position is convert(W) and every direction is
\* convert(-(T - W)), W the world-space location and T the world-space image
\* of the local point (0, 0, 1).
C7_WorldSpaceGeometry ==
  Rendered =>
    \A i \in 1..Len(file.rocket_pos) :
      LET Mw == matrix_world(objects, file.rocket_pos[i].obj)
          W == TranslationOf(Mw)
          T == TranslationOf(MatMul(Mw, Translation(<<0, 0, 1000>>)))
          D == <<-(T[1] - W[1]), -(T[2] - W[2]), -(T[3] - W[3])>>
      IN /\ file.rocket_pos[i].v = <<-W[1], W[3], -W[2]>>
         /\ file.rocket_dir[i].v = <<-D[1], D[3], -D[2]>>

\* C8: the cage array has one row per vertex of the cage mesh, the printed
\* count is the number of vertices, and row k is vertex k converted (and
\* rounded to two decimals).
C8_CageRows ==
  Rendered =>
    LET verts == objects[ccage].data.verts
    IN /\ Len(file.ccage_verts) = Len(verts)
       /\ file.ccage_vert_count = Len(verts)
       /\ \A k \in 1..Len(verts) :
            file.ccage_verts[k] =
              [x |-> Round2(-verts[k][1]), y |-> Round2(verts[k][3]),
               z |-> Round2(-verts[k][2]), props |-> "1e6, 1e5, 1.6"]

\* a mesh with two vertices at the same place gives two equal rows
C8_Witness ==
  /\ Rendered
  /\ Len(objects[ccage].data.verts) = 2
  /\ objects[ccage].data.verts[1] = objects[ccage].data.verts[2]
  /\ file.ccage_vert_count = 2

\* C9: no two #define lines of a header have the same macro name.
C9_DistinctMacroNames ==
  Rendered =>
    \A i, j \in 1..Len(file.rocket_names) :
      i # j => file.rocket_names[i].name # file.rocket_names[j].name

\* C10: the active index is never negative and is below the length of a
\* non-empty list; Add makes the new last entry active; Move at a boundary
\* changes neither list nor index; Move elsewhere keeps the multiset of
\* entries and makes the moved entry's new position active.
C10_ActiveIndex ==
  /\ [](/\ rocket_groups_active_index >= 0
        /\ (rocket_groups # <<>> => rocket_groups_active_index < Len(rocket_groups)))
  /\ [][/\ OrbiterRocketGroupAdd =>
             /\ Len(rocket_groups') = Len(rocket_groups) + 1
             /\ rocket_groups_active_index' = Len(rocket_groups') - 1
        /\ \A d \in Directions :
             LET i == rocket_groups_active_index
                 boundary == \/ (d = "UP" /\ i = 0)
                             \/ (d = "DOWN" /\ i >= Len(rocket_groups) - 1)
                 t == IF d = "UP" THEN i - 1 ELSE i + 1
             IN OrbiterRocketGroupMove(d) =>
                  IF boundary
                    THEN /\ rocket_groups' = rocket_groups
                         /\ rocket_groups_active_index' = i
                    ELSE /\ \A x \in Range(rocket_groups) \cup Range(rocket_groups') :
                              Count(rocket_groups', x) = Count(rocket_groups, x)
                         /\ rocket_groups_active_index' = t
                         /\ rocket_groups'[t + 1] = rocket_groups[i + 1]
                         /\ rocket_groups'[i + 1] = rocket_groups[t + 1]]_vars

\* a named entry moved up past a fresh one (or selected) and now active at 0
C10_Witness ==
  /\ Len(rocket_groups) = 2
  /\ rocket_groups_active_index = 0
  /\ rocket_groups[1] = [name |-> "MAIN", group |-> "G1"]
  /\ rocket_groups[2] = NewRocketGroup

====
